---------------------------- MODULE Spec2Model ----------------------------
(***************************************************************************)
(* Model of src/app1.py, the wildfire burn-severity dashboard.             *)
(*                                                                         *)
(* Raster values are fixed-point integers in ten-thousandths: the value    *)
(* 0.27 is 2700, the class number 3 written into a raster is 30000.  Every *)
(* threshold of the source is a multiple of 0.001, so the grid holds       *)
(* points on, between and beside all of them.                              *)
(*                                                                         *)
(* A pixel of a remote image is a record [value, mask]; mask = 0 is a      *)
(* masked-out (no data) pixel.                                             *)
(*                                                                         *)
(* SpecPixel follows one pixel through the raster pipeline of main()       *)
(* (classification, water mask, per-class area).                           *)
(*                                                                         *)
(* Spec follows the application: main() is run again from the top on every *)
(* interaction, and the st.cache_resource caches live across the runs.     *)
(* Dates are day numbers; an area is kept together with the boundary and   *)
(* the collections it was computed from.                                   *)
(***************************************************************************)
EXTENDS Integers, Sequences, FiniteSets, TLC

VARIABLES
    ppc,                     \* position of the pixel pipeline
    dNBR,                    \* the pixel of the difference-index raster
    pre_fire_ndwi,           \* the pixel of the pre-fire NDWI raster
    dNBR_classified,         \* the pixel of dNBR_classified
    masked_dNBR_classified,  \* the pixel of masked_dNBR_classified
    dNBR_classified_burn,    \* the pixel of the burned mask that is vectorized
    class_pixel_area,        \* per class 1..7: the pixel's term of the area sum
    \* --- the application, one script run after another ---
    pc,                      \* position of the current script run
    run,                     \* script runs started so far
    failures,                \* remote calls that have raised so far
    authenticated,           \* ee_authenticate's cached success
    satCache,                \* st.cache_resource of satCollection
    geoCache,                \* st.cache_resource of geojson_area
    classCache,              \* st.cache_resource of calculate_class_area
    upload_files,            \* the uploaded files of this run
    cloud_pixel_percentage,  \* the slider
    geometry_aoi,            \* the region of interest of this run
    pre_fire_dates,          \* the pre-fire date picker's tuple
    post_fire_dates,         \* the post-fire date picker's tuple
    pre_fire_collection,     \* what satCollection returned, pre-fire
    post_fire_collection,    \* what satCollection returned, post-fire
    sat_queries,             \* imagery queries sent to the service in this run
    layers,                  \* names of the layers added to the map
    geometry_area,           \* what geojson_area returned
    dNBR_class_areas,        \* what calculate_class_area returned, class 1..n
    messages,                \* st.error / st.warning texts shown in this run
    \* --- the two climate series ---
    cpc,                     \* position in the climate sections
    initialDate,             \* the window's first day, a "%Y-%m-%d" string
    endDate,                 \* the window's last day, a "%Y-%m-%d" string
    chirps,                  \* the remote daily precipitation dataset
    era5,                    \* the remote hourly temperature dataset
    rain_range,              \* the dates chirpsCollection passed to filterDate
    temp_range,              \* the dates temperatureCollection passed
    rdf,                     \* what full_month_precipitation returned
    temp_df,                 \* what full_month_temperature returned
    \* --- the bands of one pixel of the two composites ---
    pre_fire,                \* B3, B8, B11, B12 of the pre-fire composite
    post_fire,               \* B3, B8, B11, B12 of the post-fire composite
    post_fire_ndwi,          \* the pixel of the post-fire NDWI raster
    pre_fire_NBR,            \* the pixel of the pre-fire NBR raster
    post_fire_NBR            \* the pixel of the post-fire NBR raster

pixvars == <<ppc, dNBR, pre_fire_ndwi, dNBR_classified,
             masked_dNBR_classified, dNBR_classified_burn, class_pixel_area>>

cachevars == <<authenticated, satCache, geoCache, classCache>>

inputvars == <<upload_files, cloud_pixel_percentage, geometry_aoi,
               pre_fire_dates, post_fire_dates>>

outvars == <<pre_fire_collection, post_fire_collection, sat_queries, layers,
             geometry_area, dNBR_class_areas, messages>>

runvars == <<pc, run, failures, cachevars, inputvars, outvars>>

climvars == <<cpc, initialDate, endDate, chirps, era5, rain_range,
              temp_range, rdf, temp_df>>

bandvars == <<pre_fire, post_fire, post_fire_ndwi, pre_fire_NBR,
              post_fire_NBR>>

auxvars == <<climvars, bandvars>>

vars == <<pixvars, runvars, auxvars>>

---------------------------------------------------------------------------
(* Bounds of the model *)

\* dNBR ranges over -DMax..DMax ten-thousandths (NBR_pre - NBR_post, [-2, 2])
DMax == 20000

\* pre-fire NDWI ranges over the values within NdwiSpan ten-thousandths of
\* the water threshold -0.1
NdwiSpan == 2

---------------------------------------------------------------------------
(* Image arithmetic of the remote service, one pixel at a time *)

\* the number c as a raster value
Class(c) == c * 10000

\* the 1/0 raster value of a comparison
Bool(b) == IF b THEN Class(1) ELSE 0

Classes == 1..7

NoPixel == [value |-> 0, mask |-> 0]

\* image.where(test, value): value wherever test is non-zero
Where(img, test, v) == IF test THEN [img EXCEPT !.value = v] ELSE img

\* image.updateMask(m): kept where the image was valid and m is valid, non-zero
UpdateMask(img, m) ==
    [img EXCEPT !.mask = IF img.mask = 1 /\ m.mask = 1 /\ m.value # 0
                         THEN 1 ELSE 0]

\* image.selfMask()
SelfMask(img) == UpdateMask(img, img)

\* image.lt(c), a 1/0 image
Lt(img, c) == [img EXCEPT !.value = Bool(img.value < c)]

\* image.eq(c), a 1/0 image
Eq(img, c) == [img EXCEPT !.value = Bool(img.value = c)]

\* image.gte(c), a 1/0 image
Gte(img, c) == [img EXCEPT !.value = Bool(img.value >= c)]

\* image.neq(c), a 1/0 image
Neq(img, c) == [img EXCEPT !.value = Bool(img.value # c)]

---------------------------------------------------------------------------
(* The classifier: main(), dNBR_classified *)

\* the predicates with the lower end of class 5 off by 0.01
RangeTestShifted(c, d) ==
    CASE c = 1 -> d >= -5000 /\ d < -2510
      [] c = 2 -> d >= -2500 /\ d < -1010
      [] c = 3 -> d >= -1000 /\ d < 9900
      [] c = 4 -> d >= 1000  /\ d < 2690
      [] c = 5 -> d >= 2800  /\ d < 4390
      [] c = 6 -> d >= 4400  /\ d < 6590
      [] c = 7 -> d >= 6600  /\ d <= 13000

\* the seven range predicates, as written in the where(...) chain
RangeTest(c, d) ==
    CASE c = 1 -> d >= -5000 /\ d < -2510
      [] c = 2 -> d >= -2500 /\ d < -1010
      [] c = 3 -> d >= -1000 /\ d < 9900
      [] c = 4 -> d >= 1000  /\ d < 2690
      [] c = 5 -> d >= 2700  /\ d < 4390
      [] c = 6 -> d >= 4400  /\ d < 6590
      [] c = 7 -> d >= 6600  /\ d <= 13000

RECURSIVE WhereChain(_, _, _)
\* the chain applied up to and including step c; every test reads the
\* original dNBR, every step writes over the result of the step before
WhereChain(img, d, c) ==
    IF c = 0 THEN img
    ELSE Where(WhereChain(img, d, c - 1), RangeTest(c, d), Class(c))

RECURSIVE FirstWinsChain(_, _, _)
\* a chain in which a pixel an earlier step has classified is left alone
FirstWinsChain(img, d, c) ==
    IF c = 0 THEN img
    ELSE LET prev == FirstWinsChain(img, d, c - 1)
         IN  IF \E k \in 1..(c - 1) : RangeTest(k, d) THEN prev
             ELSE Where(prev, RangeTest(c, d), Class(c))

ClassifyFirstWins(img) == FirstWinsChain(img, img.value, 7)

\* a classifier whose last range has no upper end
ClassifyOpenTop(img) ==
    Where(WhereChain(img, img.value, 7), img.value >= 6600, Class(7))

Classify(img) == WhereChain(img, img.value, 7)

---------------------------------------------------------------------------
(* Water mask: main(), binaryMask / waterMask / masked_dNBR_classified *)

BinaryMaskLte(ndwi) == [ndwi EXCEPT !.value = Bool(ndwi.value <= -1000)]

BinaryMask(ndwi) == Lt(ndwi, -1000)

WaterMask(ndwi) == SelfMask(BinaryMask(ndwi))

MaskWater(classified, ndwi) == UpdateMask(classified, WaterMask(ndwi))

---------------------------------------------------------------------------
(* Burned mask: main(), dNBR_classified_burn *)

\* dNBR_classified.gte(4), then updateMask(dNBR_classified_burn.neq(0))
BurnMask(classified) ==
    LET burn == Gte(classified, Class(4))
    IN  UpdateMask(burn, Neq(burn, 0))

---------------------------------------------------------------------------
(* Per-class area: calculate_class_area *)

\* ee.Image.pixelArea() at scale 10, in square metres
PixelArea == 100

\* _classified_image.eq(class_value).multiply(ee.Image.pixelArea()): the
\* pixel's term of the reduceRegion sum; a masked pixel adds nothing
ClassPixelArea(img, c) ==
    IF img.mask = 1 THEN (Eq(img, Class(c)).value * PixelArea) \div Class(1)
    ELSE 0

---------------------------------------------------------------------------
(* Bounds of the application model *)

\* script runs (page re-renders) in one behaviour
MaxRuns == 2

\* remote calls that raise in one behaviour
MaxFailures == 1

\* the date pickers offer the days 1..MaxDay and one day more than
\* WarnDays after them
MaxDay == 2

---------------------------------------------------------------------------
(* The world the remote service computes on *)

Polygons == {"A", "B"}

\* ee.Geometry.Point([16.25, 36.65]), the default region
DefaultPoint == [type |-> "Point", polys |-> {}]

\* ee.Geometry.MultiPolygon(geometry_aoi_list)
MultiPolygon(list) == [type |-> "MultiPolygon", polys |-> list]

\* the 10 m pixels a polygon covers
PolygonPixels(poly) == IF poly = "A" THEN {1, 2, 3} ELSE {4, 5}

\* the pixels reduceRegion visits for a geometry; a point lies in one pixel
RegionPixels(aoi) ==
    IF aoi.type = "Point" THEN {6}
    ELSE UNION {PolygonPixels(poly) : poly \in aoi.polys}

AllPixels == 1..6

\* _aoi.area() in square metres; a point has none
PolygonArea(poly) == IF poly = "A" THEN 320 ELSE 210

RECURSIVE SumOver(_, _)
SumOver(S, f) ==
    IF S = {} THEN 0
    ELSE LET x == CHOOSE y \in S : TRUE
         IN  f[x] + SumOver(S \ {x}, f)

RegionArea(aoi) == SumOver(aoi.polys, [poly \in Polygons |-> PolygonArea(poly)])

\* the difference index of the composites at a pixel: pixels 1 and 2 burned
\* (0.5), 3 between two ranges (0.269), 4 unchanged, 5 below every range,
\* 6 open sea
WorldDNBR(p) ==
    CASE p \in {1, 2} -> 5000
      [] p = 3 -> 2690
      [] p = 5 -> -6000
      [] OTHER -> 0

\* the pre-fire NDWI at a pixel: 2 and 6 are water
WorldNDWI(p) == IF p \in {2, 6} THEN 2000 ELSE -3000

---------------------------------------------------------------------------
(* upload_files_proc *)

\* an uploaded file: whether json.loads accepts it, whether it has a
\* 'features' (or 'geometries') list, and its features: a polygon,
\* "nogeometry" (no 'geometry' key, or a geometry without 'coordinates') or
\* "nullgeometry" ('geometry' is null: the membership test raises TypeError)
GeoFile(poly) == [parses |-> TRUE, has_features |-> TRUE, features |-> <<poly>>]

Uploads == {<<>>, <<GeoFile("A")>>, <<GeoFile("B")>>}

RECURSIVE ProcFeatures(_, _, _)
\* the loop over one file's features; st is [list, warn, exc, remote]:
\* exc, an exception has left the loops; remote, it was the centroid request
ProcFeatures(features, raises, st) ==
    IF features = <<>> \/ st.exc THEN st
    ELSE LET ft == Head(features)
         IN  ProcFeatures(Tail(features), raises,
                 IF ft \in Polygons
                 THEN [st EXCEPT !.list = @ \union {ft}, !.exc = raises,
                                 !.remote = raises]
                 ELSE IF ft = "nullgeometry"
                 THEN [st EXCEPT !.exc = TRUE]
                 ELSE [st EXCEPT !.warn = @ \union
                                   {"Invalid geometry in GeoJSON file."}])

RECURSIVE ProcFiles(_, _, _)
\* the loop over the uploaded files, inside the one try block
ProcFiles(files, raises, st) ==
    IF files = <<>> \/ st.exc THEN st
    ELSE LET f == Head(files)
         IN  ProcFiles(Tail(files), raises,
                 IF ~f.parses THEN [st EXCEPT !.exc = TRUE]
                 ELSE IF ~f.has_features
                 THEN [st EXCEPT !.warn = @ \union
                         {"Invalid GeoJSON format. Expected 'features' or 'geometries'."}]
                 ELSE ProcFeatures(f.features, raises, st))

\* upload_files_proc(upload_files); raises: the centroid request raises
UploadFilesProc(files, raises) ==
    IF files = <<>> THEN [aoi |-> DefaultPoint, msgs |-> {}, failed |-> FALSE]
    ELSE LET st == ProcFiles(files, raises,
                             [list |-> {}, warn |-> {}, exc |-> FALSE,
                              remote |-> FALSE])
         IN  IF st.exc
             THEN [aoi |-> DefaultPoint,
                   msgs |-> st.warn \union {"Error processing GeoJSON"},
                   failed |-> st.remote]
             ELSE IF st.list # {}
             THEN [aoi |-> MultiPolygon(st.list), msgs |-> st.warn,
                   failed |-> FALSE]
             ELSE [aoi |-> DefaultPoint,
                   msgs |-> st.warn \union
                       {"No valid geometries found in uploaded files."},
                   failed |-> FALSE]

---------------------------------------------------------------------------
(* Date validation: main(), "Validate date ranges" *)

\* the window length above which main() warns
WarnDays == 30

Days == (1..MaxDay) \union {MaxDay + WarnDays + 1}

\* what a range picker can hold: nothing, a start date, or a start and an end
DateTuples == {<<>>} \union {<<a>> : a \in Days} \union (Days \X Days)

DateCheckGt(pre, post) ==
    IF Len(pre) # 2 \/ Len(post) # 2 THEN "unpack"
    ELSE IF pre[1] > pre[2] THEN "pre_order"
    ELSE IF post[1] > post[2] THEN "post_order"
    ELSE IF pre[2] > post[1] THEN "overlap"
    ELSE "ok"

\* a validation block without the check of the post-fire window's order
DateCheckNoPostOrder(pre, post) ==
    IF Len(pre) # 2 \/ Len(post) # 2 THEN "unpack"
    ELSE IF pre[1] > pre[2] THEN "pre_order"
    ELSE IF pre[2] >= post[1] THEN "overlap"
    ELSE "ok"

\* the outcome of the validation block: "unpack" is the ValueError of
\* unpacking a tuple that does not hold two dates
DateCheck(pre, post) ==
    IF Len(pre) # 2 \/ Len(post) # 2 THEN "unpack"
    ELSE IF pre[1] > pre[2] THEN "pre_order"
    ELSE IF post[1] > post[2] THEN "post_order"
    ELSE IF pre[2] >= post[1] THEN "overlap"
    ELSE "ok"

DateMessage(pre, post, verdict) ==
    CASE verdict = "pre_order" -> {"Pre-fire start date must be before end date."}
      [] verdict = "post_order" -> {"Post-fire start date must be before end date."}
      [] verdict = "overlap" -> {"Pre-fire date range must be before post-fire date range."}
      [] verdict = "ok" ->
             IF pre[2] - pre[1] > WarnDays \/ post[2] - post[1] > WarnDays
             THEN {"Date ranges longer than 30 days may slow down processing."}
             ELSE {}
      [] OTHER -> {}

---------------------------------------------------------------------------
(* satCollection, behind st.cache_resource *)

NoCollection == [kind |-> "none", aoi |-> DefaultPoint,
                 start |-> 0, end |-> 0, cloud |-> 0]

\* the filtered, clipped collection the service builds
Collection(start, end, cloud, aoi) ==
    [kind |-> "coll", aoi |-> aoi, start |-> start, end |-> end, cloud |-> cloud]

\* the cache key: the arguments whose names do not start with an underscore
SatKey(start, end, cloud, aoi) == <<start, end, cloud>>

\* a cache hit: the stored return value, and the stored st.warning /
\* st.error elements of the call that filled the entry, shown again
CacheHit(cache, key) ==
    LET e == CHOOSE x \in cache : x.key = key
    IN  [val |-> e.val, cache |-> cache, queried |-> 0, msgs |-> e.msgs,
         failed |-> 0]

\* a cache miss: the function body ran; its return value and its messages
\* (also a None or a 0 returned by an except branch) are stored
CacheMiss(cache, key, val, msgs, raised) ==
    [val |-> val,
     cache |-> cache \union {[key |-> key, val |-> val, msgs |-> msgs]},
     queried |-> 1, msgs |-> msgs, failed |-> IF raised THEN 1 ELSE 0]

\* one call; outcome is what the service does if it is asked:
\* "images", "empty" (size 0) or "error" (the request raises)
SatCollection(start, end, cloud, aoi, cache, outcome) ==
    LET key == SatKey(start, end, cloud, aoi)
    IN  IF \E e \in cache : e.key = key
        THEN CacheHit(cache, key)
        ELSE CacheMiss(cache, key,
                 IF outcome = "images" THEN Collection(start, end, cloud, aoi)
                 ELSE NoCollection,
                 CASE outcome = "empty" -> {"No Sentinel-2 images found"}
                   [] outcome = "error" -> {"Error fetching satellite data"}
                   [] OTHER -> {},
                 outcome = "error")

Outcomes == {"images", "empty", "error"}

---------------------------------------------------------------------------
(* The rasters main() derives from the two collections *)

\* masked_dNBR_classified: defined where both clipped composites have data
MaskedClassified(pre, post) ==
    [p \in AllPixels |->
        IF p \in RegionPixels(pre.aoi) \intersect RegionPixels(post.aoi)
        THEN MaskWater(Classify([value |-> WorldDNBR(p), mask |-> 1]),
                       [value |-> WorldNDWI(p), mask |-> 1])
        ELSE NoPixel]

---------------------------------------------------------------------------
(* geojson_area and calculate_class_area, behind st.cache_resource *)

\* round(x / 1e6, 4) of x square metres, in units of 0.0001 km2
\* (Python rounds a tie to the even neighbour)
Round4(sqm) ==
    LET q == sqm \div 100
        r == sqm % 100
    IN  IF r > 50 \/ (r = 50 /\ q % 2 = 1) THEN q + 1 ELSE q

\* the cache key of geojson_area(_aoi): no argument takes part
GeoKey(aoi) == <<>>

\* an area together with the boundary and the rasters it was computed from
GeojsonArea(aoi, cache, raises) ==
    LET key == GeoKey(aoi)
    IN  IF \E e \in cache : e.key = key
        THEN CacheHit(cache, key)
        ELSE CacheMiss(cache, key,
                 [value |-> IF raises THEN 0 ELSE Round4(RegionArea(aoi)),
                  aoi |-> aoi],
                 IF raises THEN {"Error calculating GeoJSON area"} ELSE {},
                 raises)

\* the cache key of calculate_class_area(_classified_image, _geometry_aoi,
\* class_value)
ClassKey(image, aoi, c) == <<c>>

\* the reduceRegion sum, in square metres
ClassAreaSum(image, aoi, c) ==
    LET raster == MaskedClassified(image[1], image[2])
    IN  SumOver(RegionPixels(aoi),
                [p \in AllPixels |-> ClassPixelArea(raster[p], c)])

CalculateClassArea(image, aoi, c, cache, raises) ==
    LET key == ClassKey(image, aoi, c)
    IN  IF \E e \in cache : e.key = key
        THEN CacheHit(cache, key)
        ELSE CacheMiss(cache, key,
                 [value |-> IF raises THEN 0 ELSE ClassAreaSum(image, aoi, c),
                  aoi |-> aoi, image |-> image],
                 IF raises THEN {"Error calculating class area"} ELSE {},
                 raises)

---------------------------------------------------------------------------
(* The climate series: full_month_precipitation, full_month_temperature *)
(*                                                                         *)
(* A date is a record [year, month, day]; a date string is the sequence of *)
(* the code points of its ten characters.  Remote precipitation (mm) and   *)
(* temperature (K) values are integers in thousandths, the values of the   *)
(* two frames are integers in hundredths.  A failure of the remote         *)
(* requests is followed in Spec (FinishRun), not here.                     *)

\* a remote value that is missing: no number a dataset or a frame holds
\* (remote values are not negative, a Celsius value is above -273.15)
None == -100000

\* the code points of a digit and of "-"
Chr(d) == 48 + d

Digit(ch) == ch - 48

Dash == 45

\* date.strftime("%Y-%m-%d"), and the service's format("YYYY-MM-dd")
Strftime(date) ==
    <<Chr(date.year \div 1000), Chr((date.year \div 100) % 10),
      Chr((date.year \div 10) % 10), Chr(date.year % 10), Dash,
      Chr(date.month \div 10), Chr(date.month % 10), Dash,
      Chr(date.day \div 10), Chr(date.day % 10)>>

\* datetime.strptime(text, "%Y-%m-%d"), and the service's reading of a string
Strptime(text) ==
    [year |-> Digit(text[1]) * 1000 + Digit(text[2]) * 100
                + Digit(text[3]) * 10 + Digit(text[4]),
     month |-> Digit(text[6]) * 10 + Digit(text[7]),
     day |-> Digit(text[9]) * 10 + Digit(text[10])]

IsLeap(year) == year % 4 = 0 /\ (year % 100 # 0 \/ year % 400 = 0)

\* the second component of calendar.monthrange(year, month)
MonthRange(year, month) ==
    IF month = 2 THEN (IF IsLeap(year) THEN 29 ELSE 28)
    ELSE IF month \in {4, 6, 9, 11} THEN 30 ELSE 31

DateLt(a, b) ==
    \/ a.year < b.year
    \/ a.year = b.year /\ a.month < b.month
    \/ a.year = b.year /\ a.month = b.month /\ a.day < b.day

NextDay(date) ==
    IF date.day < MonthRange(date.year, date.month)
    THEN [date EXCEPT !.day = @ + 1]
    ELSE IF date.month < 12
    THEN [date EXCEPT !.month = @ + 1, !.day = 1]
    ELSE [year |-> date.year + 1, month |-> 1, day |-> 1]

\* the two strings full_month_* pass on: the first day of initialDate's
\* month and the last day of endDate's month (the "same month" branch
\* assigns the same two values again)
FullMonthRange(initial, end) ==
    LET initial_date == Strptime(initial)
        end_date == Strptime(end)
        start_of_month == [initial_date EXCEPT !.day = 1]
        end_of_month_day == MonthRange(end_date.year, end_date.month)
        end_of_month == [end_date EXCEPT !.day = end_of_month_day]
    IN  [start |-> Strftime(start_of_month), end |-> Strftime(end_of_month)]

NoRange == [start |-> <<>>, end |-> <<>>]

\* a remote dataset: every day has the images imgs (their values, in time
\* order); the service lists a collection by ascending or descending time
NoDataset == [imgs |-> <<>>, order |-> "asc"]

RECURSIVE DaysFrom(_, _)
\* the days from day up to, not including, end
DaysFrom(day, end) ==
    IF DateLt(day, end) THEN <<day>> \o DaysFrom(NextDay(day), end) ELSE <<>>

\* collection.filterDate(start, end): the images whose time is at or after
\* start and before end, as the service lists them
FilterDate(dataset, start, end) ==
    LET days == DaysFrom(Strptime(start), Strptime(end))
        k == Len(dataset.imgs)
        n == Len(days) * k
        asc == [j \in 1..n |->
                   [date |-> days[((j - 1) \div k) + 1],
                    value |-> dataset.imgs[((j - 1) % k) + 1]]]
    IN  IF dataset.order = "asc" THEN asc
        ELSE [j \in 1..n |-> asc[n + 1 - j]]

\* chirpsCollection / temperatureCollection: None when size() is 0
ClimateCollection(dataset, start, end) ==
    LET images == FilterDate(dataset, start, end)
    IN  [none |-> images = <<>>, images |-> images]

\* round(value, 2), from thousandths to hundredths (no input is on a tie)
Round2(value) == (value + 5) \div 10

\* the frame of full_month_precipitation: one row per image, as listed
PrecipitationFrame(images) ==
    [j \in 1..Len(images) |->
        [Date |-> Strftime(images[j].date),
         Precipitation |-> IF images[j].value # None
                           THEN Round2(images[j].value) ELSE None]]

\* a conversion that subtracts 273
ToCelsiusWhole(value) == Round2(value - 273000)

\* round(value - 273.15, 2)
ToCelsius(value) == Round2(value - 273150)

\* scaled_values
ScaledValues(images) ==
    [j \in 1..Len(images) |->
        [Date |-> Strftime(images[j].date),
         Temperature |-> IF images[j].value # None
                         THEN ToCelsius(images[j].value) ELSE None]]

\* the order of strings
StrLt(s, t) ==
    \E i \in 1..Len(s) :
        /\ i <= Len(t)
        /\ s[i] < t[i]
        /\ \A k \in 1..(i - 1) : s[k] = t[k]

RECURSIVE InsertKey(_, _)
\* a key put at its place in an ascending list of distinct keys
InsertKey(keys, key) ==
    IF keys = <<>> THEN <<key>>
    ELSE IF key = Head(keys) THEN keys
    ELSE IF StrLt(key, Head(keys)) THEN <<key>> \o keys
    ELSE <<Head(keys)>> \o InsertKey(Tail(keys), key)

RECURSIVE SortedKeys(_, _)
\* the group keys of the rows from row j on, distinct and ascending
SortedKeys(rows, j) ==
    IF j > Len(rows) THEN <<>>
    ELSE InsertKey(SortedKeys(rows, j + 1), rows[j].Date)

RECURSIVE GroupSum(_, _, _)
\* the sum and the number of the non-missing values of the rows of a group
GroupSum(rows, key, j) ==
    IF j > Len(rows) THEN [sum |-> 0, n |-> 0]
    ELSE LET rest == GroupSum(rows, key, j + 1)
         IN  IF rows[j].Date = key /\ rows[j].Temperature # None
             THEN [sum |-> rest.sum + rows[j].Temperature, n |-> rest.n + 1]
             ELSE rest

\* temp_df.groupby("Date", as_index=False).mean(): one row per date, dates
\* ascending, the mean of the non-missing values kept as [sum, n]
\* (n = 0: the mean is missing)
GroupByDateMean(rows) ==
    LET keys == SortedKeys(rows, 1)
    IN  [i \in 1..Len(keys) |->
            [Date |-> keys[i], Temperature |-> GroupSum(rows, keys[i], 1)]]

\* before the climate sections run
ClimateOff ==
    /\ cpc = "off"
    /\ initialDate = <<>>
    /\ endDate = <<>>
    /\ chirps = NoDataset
    /\ era5 = NoDataset
    /\ rain_range = NoRange
    /\ temp_range = NoRange
    /\ rdf = <<>>
    /\ temp_df = <<>>

---------------------------------------------------------------------------
(* The spectral indices: get_NDWI, get_NBR, dNBR *)

\* the four bands of a pixel that main() reads
NoBands == [B3 |-> 0, B8 |-> 0, B11 |-> 0, B12 |-> 0]

\* a ratio whose numerator counts the second band twice
NormalizedDifferenceSkew(a, b) ==
    LET first == IF a < 0 THEN 0 ELSE a
        second == IF b < 0 THEN 0 ELSE b
    IN  IF first + second = 0 THEN NoPixel
        ELSE [value |-> ((first - 2 * second) * 10000) \div (first + second),
              mask |-> 1]

\* image.normalizedDifference([a, b]): (a - b) / (a + b) in ten-thousandths;
\* the service takes a negative input as 0 and masks the pixel where the
\* sum is 0
NormalizedDifference(a, b) ==
    LET first == IF a < 0 THEN 0 ELSE a
        second == IF b < 0 THEN 0 ELSE b
    IN  IF first + second = 0 THEN NoPixel
        ELSE [value |-> ((first - second) * 10000) \div (first + second),
              mask |-> 1]

get_NDWI(image) == NormalizedDifference(image.B3, image.B11)

get_NBR(image) == NormalizedDifference(image.B8, image.B12)

\* a.subtract(b): defined where both are
Subtract(a, b) ==
    IF a.mask = 1 /\ b.mask = 1
    THEN [value |-> a.value - b.value, mask |-> 1]
    ELSE NoPixel

\* before the composites are read
BandsOff ==
    /\ pre_fire = NoBands
    /\ post_fire = NoBands
    /\ post_fire_ndwi = NoPixel
    /\ pre_fire_NBR = NoPixel
    /\ post_fire_NBR = NoPixel

AuxOff == ClimateOff /\ BandsOff

---------------------------------------------------------------------------
(* The application: script runs of main() *)

CloudValues == {5, 75}

NoArea == [value |-> 0, aoi |-> DefaultPoint]

\* the script's variables before a run has set them
FreshRun ==
    /\ upload_files = <<>>
    /\ cloud_pixel_percentage = 0
    /\ geometry_aoi = DefaultPoint
    /\ pre_fire_dates = <<>>
    /\ post_fire_dates = <<>>
    /\ pre_fire_collection = NoCollection
    /\ post_fire_collection = NoCollection
    /\ sat_queries = 0
    /\ layers = <<>>
    /\ geometry_area = NoArea
    /\ dNBR_class_areas = <<>>
    /\ messages = {}

AppIdle ==
    /\ pc = "idle"
    /\ run = 0
    /\ failures = 0
    /\ authenticated = FALSE
    /\ satCache = {}
    /\ geoCache = {}
    /\ classCache = {}
    /\ FreshRun

PixelOff ==
    /\ ppc = "off"
    /\ dNBR = NoPixel
    /\ pre_fire_ndwi = NoPixel
    /\ dNBR_classified = NoPixel
    /\ masked_dNBR_classified = NoPixel
    /\ dNBR_classified_burn = NoPixel
    /\ class_pixel_area = [c \in Classes |-> 0]

Init == AppIdle /\ PixelOff /\ AuxOff

CanFail == failures < MaxFailures

\* a widget interaction (or the first page load) starts the script again
StartRun ==
    /\ pc \in {"idle", "done", "stopped", "crashed"}
    /\ run < MaxRuns
    /\ run' = run + 1
    /\ pc' = "auth"
    /\ upload_files' = <<>>
    /\ cloud_pixel_percentage' = 0
    /\ geometry_aoi' = DefaultPoint
    /\ pre_fire_dates' = <<>>
    /\ post_fire_dates' = <<>>
    /\ pre_fire_collection' = NoCollection
    /\ post_fire_collection' = NoCollection
    /\ sat_queries' = 0
    /\ layers' = <<>>
    /\ geometry_area' = NoArea
    /\ dNBR_class_areas' = <<>>
    /\ messages' = {}
    /\ UNCHANGED <<failures, cachevars, pixvars, auxvars>>

\* ee_authenticate() with a failure that lets the run go on
AuthenticateGoesOn ==
    /\ pc = "auth"
    /\ \E ok \in BOOLEAN :
         /\ ~ok => (~authenticated /\ CanFail)
         /\ IF authenticated \/ ok
            THEN /\ authenticated' = TRUE
                 /\ UNCHANGED <<failures, messages>>
            ELSE /\ authenticated' = FALSE
                 /\ failures' = failures + 1
                 /\ messages' = messages \union
                        {"Failed to authenticate with Google Earth Engine"}
         /\ pc' = "input"
    /\ UNCHANGED <<run, satCache, geoCache, classCache, inputvars,
                   pre_fire_collection, post_fire_collection, sat_queries,
                   layers, geometry_area, dNBR_class_areas, pixvars, auxvars>>

\* ee_authenticate(): cached once it has succeeded; a failure stops the run
Authenticate ==
    /\ pc = "auth"
    /\ \E ok \in BOOLEAN :
         /\ ~ok => (~authenticated /\ CanFail)
         /\ IF authenticated \/ ok
            THEN /\ authenticated' = TRUE
                 /\ pc' = "input"
                 /\ UNCHANGED <<failures, messages>>
            ELSE /\ authenticated' = FALSE
                 /\ failures' = failures + 1
                 /\ messages' = messages \union
                        {"Failed to authenticate with Google Earth Engine"}
                 /\ pc' = "stopped"
    /\ UNCHANGED <<run, satCache, geoCache, classCache, inputvars,
                   pre_fire_collection, post_fire_collection, sat_queries,
                   layers, geometry_area, dNBR_class_areas, pixvars, auxvars>>

\* the slider and the file uploader of the input form, upload_files_proc
CollectFrom(uploads) ==
    /\ pc = "input"
    /\ \E files \in uploads, cloud \in CloudValues, raises \in BOOLEAN :
         LET r == UploadFilesProc(files, raises)
         IN  /\ raises => (CanFail /\ r.failed)
             /\ upload_files' = files
             /\ cloud_pixel_percentage' = cloud
             /\ geometry_aoi' = r.aoi
             /\ messages' = messages \union r.msgs
             /\ failures' = failures + (IF r.failed THEN 1 ELSE 0)
    /\ pc' = "dates"
    /\ UNCHANGED <<run, cachevars, pre_fire_dates, post_fire_dates,
                   pre_fire_collection, post_fire_collection, sat_queries,
                   layers, geometry_area, dNBR_class_areas, pixvars, auxvars>>

CollectInputs == CollectFrom(Uploads)

\* the two date pickers and the validation block
ValidateDates ==
    /\ pc = "dates"
    /\ \E pre \in DateTuples, post \in DateTuples :
         LET verdict == DateCheck(pre, post)
         IN  /\ pre_fire_dates' = pre
             /\ post_fire_dates' = post
             /\ messages' = messages \union DateMessage(pre, post, verdict)
             /\ pc' = CASE verdict = "ok" -> "query_pre"
                        [] verdict = "unpack" -> "crashed"
                        [] OTHER -> "stopped"
    /\ UNCHANGED <<run, failures, cachevars, upload_files,
                   cloud_pixel_percentage, geometry_aoi,
                   pre_fire_collection, post_fire_collection, sat_queries,
                   layers, geometry_area, dNBR_class_areas, pixvars, auxvars>>

\* pre_fire_collection = satCollection(...)
QueryPre ==
    /\ pc = "query_pre"
    /\ \E outcome \in Outcomes :
         LET r == SatCollection(pre_fire_dates[1], pre_fire_dates[2],
                                cloud_pixel_percentage, geometry_aoi,
                                satCache, outcome)
         IN  /\ r.failed = 1 => CanFail
             /\ pre_fire_collection' = r.val
             /\ satCache' = r.cache
             /\ sat_queries' = sat_queries + r.queried
             /\ messages' = messages \union r.msgs
             /\ failures' = failures + r.failed
    /\ pc' = "query_post"
    /\ UNCHANGED <<run, authenticated, geoCache, classCache, inputvars,
                   post_fire_collection, layers, geometry_area,
                   dNBR_class_areas, pixvars, auxvars>>

\* a check that stops only when both collections are None
MissingBoth(pre, post) == pre.kind = "none" /\ post.kind = "none"

\* pre_fire_collection is None or post_fire_collection is None
Missing(pre, post) == pre.kind = "none" \/ post.kind = "none"

\* post_fire_collection = satCollection(...), then the check for None
QueryPost ==
    /\ pc = "query_post"
    /\ \E outcome \in Outcomes :
         LET r == SatCollection(post_fire_dates[1], post_fire_dates[2],
                                cloud_pixel_percentage, geometry_aoi,
                                satCache, outcome)
             missing == Missing(pre_fire_collection, r.val)
         IN  /\ r.failed = 1 => CanFail
             /\ post_fire_collection' = r.val
             /\ satCache' = r.cache
             /\ sat_queries' = sat_queries + r.queried
             /\ messages' = messages \union r.msgs \union
                    (IF missing
                     THEN {"Cannot generate map due to missing satellite data."}
                     ELSE {})
             /\ failures' = failures + r.failed
             /\ pc' = IF missing THEN "stopped" ELSE "layers"
    /\ UNCHANGED <<run, authenticated, geoCache, classCache, inputvars,
                   pre_fire_collection, layers, geometry_area,
                   dNBR_class_areas, pixvars, auxvars>>

\* a branch on the order of the two start dates
LayerNamesOrder(pre, post) ==
    IF pre[1] <= post[1] THEN <<"Satellite Imagery">>
    ELSE <<"Pre-Fire Satellite Imagery", "Post-Fire Satellite Imagery",
           "NDWI", "Reclassified dNBR", "Burn Scar">>

\* the layers of the branch main() takes
LayerNames(pre, post) ==
    IF pre[1] = post[1] THEN <<"Satellite Imagery">>
    ELSE <<"Pre-Fire Satellite Imagery", "Post-Fire Satellite Imagery",
           "NDWI", "Reclassified dNBR", "Burn Scar">>

RECURSIVE Keep(_, _, _)
\* the names whose getMapId request did not raise, in order
Keep(names, failing, i) ==
    IF i > Len(names) THEN <<>>
    ELSE (IF i \in failing THEN <<>> ELSE <<names[i]>>)
         \o Keep(names, failing, i + 1)

\* composites, indices, classification, masks (all built lazily), then the
\* add_ee_layer calls: one that raises shows an error and adds no layer
AddLayers ==
    /\ pc = "layers"
    /\ LET names == LayerNames(pre_fire_dates, post_fire_dates)
       IN  \E failing \in SUBSET (1..Len(names)) :
             /\ failures + Cardinality(failing) <= MaxFailures
             /\ layers' = Keep(names, failing, 1)
             /\ failures' = failures + Cardinality(failing)
             /\ messages' = messages \union
                    (IF failing # {} THEN {"Error adding layer to map"} ELSE {})
    /\ pc' = "report"
    /\ UNCHANGED <<run, cachevars, inputvars, pre_fire_collection,
                   post_fire_collection, sat_queries, geometry_area,
                   dNBR_class_areas, pixvars, auxvars>>

\* the report form: without "Generate Report" nothing is computed
\* with it, geometry_area = geojson_area(geometry_aoi)
ReportForm ==
    /\ pc = "report"
    /\ \E submit_button \in BOOLEAN, raises \in BOOLEAN :
         IF submit_button
         THEN LET r == GeojsonArea(geometry_aoi, geoCache, raises)
              IN  /\ r.failed = 1 => CanFail
                  /\ raises => r.failed = 1
                  /\ geometry_area' = r.val
                  /\ geoCache' = r.cache
                  /\ messages' = messages \union r.msgs
                  /\ failures' = failures + r.failed
                  /\ pc' = "class_areas"
         ELSE /\ ~raises
              /\ pc' = "climate"
              /\ UNCHANGED <<geometry_area, geoCache, messages, failures>>
    /\ UNCHANGED <<run, authenticated, satCache, classCache, inputvars,
                   pre_fire_collection, post_fire_collection, sat_queries,
                   layers, dNBR_class_areas, pixvars, auxvars>>

\* one turn of "for i in range(1, 8)": calculate_class_area(
\* masked_dNBR_classified, geometry_aoi, i), appended to dNBR_class_areas
ClassAreaStep ==
    /\ pc = "class_areas"
    /\ \E raises \in BOOLEAN :
         LET i == Len(dNBR_class_areas) + 1
             r == CalculateClassArea(
                      <<pre_fire_collection, post_fire_collection>>,
                      geometry_aoi, i, classCache, raises)
         IN  /\ r.failed = 1 => CanFail
             /\ raises => r.failed = 1
             /\ dNBR_class_areas' = Append(dNBR_class_areas, r.val)
             /\ classCache' = r.cache
             /\ messages' = messages \union r.msgs
             /\ failures' = failures + r.failed
             /\ pc' = IF i = 7 THEN "climate" ELSE "class_areas"
    /\ UNCHANGED <<run, authenticated, satCache, geoCache, inputvars,
                   pre_fire_collection, post_fire_collection, sat_queries,
                   layers, geometry_area, pixvars, auxvars>>

\* what the service does for one climate series: data, no image in the
\* range, size().getInfo() raises, or getInfo() of the mapped features raises
ClimateOutcomes == {"data", "empty", "fetch_error", "process_error"}

ClimateFailed(outcome) ==
    IF outcome \in {"fetch_error", "process_error"} THEN 1 ELSE 0

\* what full_month_precipitation and precipitation_chart show
PrecipitationMessages(outcome) ==
    CASE outcome = "data" -> {}
      [] outcome = "empty" ->
            {"No precipitation data available for the specified date range.",
             "No precipitation data to display."}
      [] outcome = "fetch_error" ->
            {"Error fetching precipitation data",
             "No precipitation data to display."}
      [] outcome = "process_error" ->
            {"Error processing precipitation data",
             "No precipitation data to display."}

\* what full_month_temperature and temperature_chart show
TemperatureMessages(outcome) ==
    CASE outcome = "data" -> {}
      [] outcome = "empty" ->
            {"No temperature data available for the specified date range.",
             "No temperature data to display."}
      [] outcome = "fetch_error" ->
            {"Error fetching temperature data",
             "No temperature data to display."}
      [] outcome = "process_error" ->
            {"Error processing temperature data",
             "No temperature data to display."}

\* the precipitation and the temperature sections, which catch every
\* exception and go on with an empty frame; they end the run
FinishRun ==
    /\ pc = "climate"
    /\ \E rain \in ClimateOutcomes, temp \in ClimateOutcomes :
         /\ failures + ClimateFailed(rain) + ClimateFailed(temp) <= MaxFailures
         /\ failures' = failures + ClimateFailed(rain) + ClimateFailed(temp)
         /\ messages' = messages \union PrecipitationMessages(rain)
                                 \union TemperatureMessages(temp)
    /\ pc' = "done"
    /\ UNCHANGED <<run, cachevars, inputvars, pre_fire_collection,
                   post_fire_collection, sat_queries, layers, geometry_area,
                   dNBR_class_areas, pixvars, auxvars>>

Next ==
    \/ StartRun
    \/ Authenticate
    \/ CollectInputs
    \/ ValidateDates
    \/ QueryPre
    \/ QueryPost
    \/ AddLayers
    \/ ReportForm
    \/ ClassAreaStep
    \/ FinishRun

Spec == Init /\ [][Next]_vars

---------------------------------------------------------------------------
(* SpecUpload: upload_files_proc on batches of uploaded files *)

\* files in a batch, features in a file
MaxFiles == 2

MaxFeatures == 2

FeatureKinds == Polygons \union {"nogeometry", "nullgeometry"}

SeqsUpTo(S, n) == UNION {[1..k -> S] : k \in 0..n}

Files ==
    {[parses |-> FALSE, has_features |-> FALSE, features |-> <<>>],
     [parses |-> TRUE, has_features |-> FALSE, features |-> <<>>]}
    \union {[parses |-> TRUE, has_features |-> TRUE, features |-> fs] :
               fs \in SeqsUpTo(FeatureKinds, MaxFeatures)}

UploadBatches == SeqsUpTo(Files, MaxFiles)

\* a run that has authenticated and reached the input form
InitUpload ==
    /\ pc = "input"
    /\ run = 1
    /\ failures = 0
    /\ authenticated = TRUE
    /\ satCache = {}
    /\ geoCache = {}
    /\ classCache = {}
    /\ FreshRun
    /\ PixelOff
    /\ AuxOff

CollectUpload == CollectFrom(UploadBatches)

NextUpload == CollectUpload

SpecUpload == InitUpload /\ [][NextUpload]_vars

\* the polygons of the features that are valid, in files that are valid
ValidPolygons(files) ==
    {ft \in Polygons :
        \E i \in 1..Len(files) :
            /\ files[i].parses
            /\ files[i].has_features
            /\ \E j \in 1..Len(files[i].features) : files[i].features[j] = ft}

\* C12: a malformed file or feature is skipped with a warning and is no hard
\* failure: unless the centroid request of the service raises, every valid
\* polygon of the batch is in the returned region.
C12_ValidKept ==
    (pc = "dates" /\ failures = 0) =>
        /\ "Error processing GeoJSON" \notin messages
        /\ ValidPolygons(upload_files) \subseteq geometry_aoi.polys

\* C13: if the pre-fire or the post-fire query finds no images, this is
\* reported and the run halts at the check after the two queries: it shows
\* no layer, no area and no report.
C13_EmptyHalts ==
    ("No Sentinel-2 images found" \in messages) =>
        /\ pc \in {"query_post", "stopped"}
        /\ pc = "stopped" =>
              "Cannot generate map due to missing satellite data." \in messages
        /\ layers = <<>>
        /\ geometry_area = NoArea
        /\ dNBR_class_areas = <<>>

\* a run stopped after one query found images and the other found none
C13_Witness ==
    /\ pc = "stopped"
    /\ "No Sentinel-2 images found" \in messages
    /\ pre_fire_collection.kind # post_fire_collection.kind
    /\ layers = <<>>

\* the errors the remote calls of satCollection, add_ee_layer,
\* calculate_class_area, geojson_area and the climate queries report
RemoteErrors ==
    {"Error fetching satellite data", "Error adding layer to map",
     "Error calculating class area", "Error calculating GeoJSON area",
     "Error fetching precipitation data", "Error processing precipitation data",
     "Error fetching temperature data", "Error processing temperature data"}

\* C14: when a remote computation fails the error is reported and the run
\* halts: it stops at the latest at the check after the two imagery queries,
\* and shows no layer, no area and no report.
C14_RemoteFailureHalts ==
    (messages \intersect RemoteErrors # {}) =>
        /\ pc \in {"query_post", "stopped"}
        /\ layers = <<>>
        /\ geometry_area = NoArea
        /\ dNBR_class_areas = <<>>

\* C15: a failed authentication is fatal for the run: the error is shown, the
\* run stops, and no input is processed and no query or other request made.
C15_AuthFatal ==
    ("Failed to authenticate with Google Earth Engine" \in messages) =>
        /\ pc = "stopped"
        /\ ~authenticated
        /\ upload_files = <<>>
        /\ geometry_aoi = DefaultPoint
        /\ pre_fire_dates = <<>>
        /\ post_fire_dates = <<>>
        /\ sat_queries = 0
        /\ pre_fire_collection = NoCollection
        /\ post_fire_collection = NoCollection
        /\ layers = <<>>
        /\ geometry_area = NoArea
        /\ dNBR_class_areas = <<>>

\* a run stopped by the failed authentication
C15_Witness ==
    /\ pc = "stopped"
    /\ "Failed to authenticate with Google Earth Engine" \in messages
    /\ sat_queries = 0

---------------------------------------------------------------------------
(* SpecPixel: one pixel through the raster pipeline *)

DValues == -DMax..DMax

NdwiValues == (-1000 - NdwiSpan)..(-1000 + NdwiSpan)

InitPixel ==
    /\ ppc = "index"
    /\ dNBR \in {[value |-> d, mask |-> 1] : d \in DValues}
    /\ pre_fire_ndwi \in {[value |-> w, mask |-> 1] : w \in NdwiValues}
    /\ dNBR_classified = NoPixel
    /\ masked_dNBR_classified = NoPixel
    /\ dNBR_classified_burn = NoPixel
    /\ class_pixel_area = [c \in Classes |-> 0]
    /\ AppIdle
    /\ AuxOff

ClassifyPixel ==
    /\ ppc = "index"
    /\ dNBR_classified' = Classify(dNBR)
    /\ ppc' = "classified"
    /\ UNCHANGED <<dNBR, pre_fire_ndwi, masked_dNBR_classified,
                   dNBR_classified_burn, class_pixel_area, runvars, auxvars>>

MaskPixel ==
    /\ ppc = "classified"
    /\ masked_dNBR_classified' = MaskWater(dNBR_classified, pre_fire_ndwi)
    /\ ppc' = "masked"
    /\ UNCHANGED <<dNBR, pre_fire_ndwi, dNBR_classified,
                   dNBR_classified_burn, class_pixel_area, runvars, auxvars>>

\* dNBR_classified_burn, the mask reduceToVectors turns into polygons
BurnPixel ==
    /\ ppc = "masked"
    /\ dNBR_classified_burn' = BurnMask(dNBR_classified)
    /\ ppc' = "burn"
    /\ UNCHANGED <<dNBR, pre_fire_ndwi, dNBR_classified,
                   masked_dNBR_classified, class_pixel_area, runvars, auxvars>>

AreaPixel ==
    /\ ppc = "burn"
    /\ class_pixel_area' =
           [c \in Classes |-> ClassPixelArea(masked_dNBR_classified, c)]
    /\ ppc' = "report"
    /\ UNCHANGED <<dNBR, pre_fire_ndwi, dNBR_classified,
                   masked_dNBR_classified, dNBR_classified_burn, runvars, auxvars>>

NextPixel ==
    \/ ClassifyPixel
    \/ MaskPixel
    \/ BurnPixel
    \/ AreaPixel

SpecPixel == InitPixel /\ [][NextPixel]_vars

Classified == ppc \in {"classified", "masked", "burn", "report"}

---------------------------------------------------------------------------
(* The severity table of the specification, class -> range of d *)

InTable(c, d) ==
    CASE c = 1 -> d >= -5000 /\ d < -2510
      [] c = 2 -> d >= -2500 /\ d < -1010
      [] c = 3 -> d >= -1000 /\ d <= 990
      [] c = 4 -> d >= 1000  /\ d < 2690
      [] c = 5 -> d >= 2700  /\ d < 4390
      [] c = 6 -> d >= 4400  /\ d < 6590
      [] c = 7 -> d >= 6600  /\ d <= 13000

Satisfied(d) == {c \in Classes : RangeTest(c, d)}

Min(S) == CHOOSE x \in S : \A y \in S : x <= y

Max(S) == CHOOSE x \in S : \A y \in S : x >= y

\* C1: a value d inside one of the seven ranges of the severity table is
\* given exactly that table class by the where(...) chain.
C1_TableClass ==
    Classified =>
        \A c \in Classes :
            InTable(c, dNBR.value) => dNBR_classified.value = Class(c)

\* a value of table class 4, which also satisfies the predicate of class 3
C1_Witness ==
    /\ Classified
    /\ dNBR.value = 2000
    /\ RangeTest(3, dNBR.value)
    /\ dNBR_classified.value = Class(4)

C3_ExactlyOne ==
    (Classified /\ dNBR.value >= -5000 /\ dNBR.value <= 13000) =>
        Cardinality(Satisfied(dNBR.value)) = 1

\* C4: class 3 is assigned only to values of the table range [-0.10, 0.099].
C4_Class3Range ==
    (Classified /\ dNBR_classified.value = Class(3)) =>
        (dNBR.value >= -1000 /\ dNBR.value <= 990)

\* C5: a value outside [-0.5, 1.3] passes through the chain unchanged.
C5_PassThrough ==
    (Classified /\ (dNBR.value < -5000 \/ dNBR.value > 13000)) =>
        dNBR_classified = dNBR

\* values just above 1.3 and just below -0.5, passed through
C5_Witness ==
    /\ Classified
    /\ dNBR.value \in {13001, -5001}
    /\ dNBR_classified.value = dNBR.value

\* C10: a pixel of masked_dNBR_classified is kept exactly when its pre-fire
\* NDWI is below -0.1, and a pixel that is not kept adds to no class area.
C10_WaterMasked ==
    /\ ppc \in {"masked", "burn", "report"} =>
           /\ (masked_dNBR_classified.mask = 1) <=> (pre_fire_ndwi.value < -1000)
           /\ masked_dNBR_classified.value = dNBR_classified.value
    /\ (ppc = "report" /\ pre_fire_ndwi.value >= -1000) =>
           \A c \in Classes : class_pixel_area[c] = 0

\* a pixel of class 6 with NDWI exactly -0.1: masked out, no area
C10_Witness ==
    /\ ppc = "report"
    /\ pre_fire_ndwi.value = -1000
    /\ dNBR_classified.value = Class(6)
    /\ masked_dNBR_classified.mask = 0
    /\ class_pixel_area[6] = 0


\* C11: every pixel of the burned mask that is vectorized has a class of 4
\* or more in the water-masked classified raster, so it is no water pixel
\* (its pre-fire NDWI is below -0.1).
C11_BurnAfterWater ==
    (ppc \in {"burn", "report"} /\ dNBR_classified_burn.mask = 1) =>
        /\ masked_dNBR_classified.mask = 1
        /\ masked_dNBR_classified.value >= Class(4)
        /\ pre_fire_ndwi.value < -1000

\* C20: a pixel whose d satisfies none of the seven predicates, so that its
\* raw value is passed through, adds to none of the seven class areas.
C20_UnclassifiedNotCounted ==
    (ppc = "report" /\ Satisfied(dNBR.value) = {}) =>
        \A c \in Classes : class_pixel_area[c] = 0

---------------------------------------------------------------------------
(* Claims about the application *)

DatesChosen == Len(pre_fire_dates) = 2 /\ Len(post_fire_dates) = 2

ValidationErrors ==
    {"Pre-fire start date must be before end date.",
     "Post-fire start date must be before end date.",
     "Pre-fire date range must be before post-fire date range."}

\* C6: when the pre-fire window ends on or after the day the post-fire
\* window starts, the run is stopped with an error and no imagery query has
\* been issued: satCollection was not called.
C6_RejectBeforeQuery ==
    (DatesChosen /\ pre_fire_dates[2] >= post_fire_dates[1]) =>
        /\ pc = "stopped"
        /\ messages \intersect ValidationErrors # {}
        /\ sat_queries = 0
        /\ pre_fire_collection = NoCollection
        /\ post_fire_collection = NoCollection

\* the pre-fire window ends on the very day the post-fire window starts
C6_Witness ==
    /\ pc = "stopped"
    /\ pre_fire_dates = <<1, 2>>
    /\ post_fire_dates = <<2, 2>>
    /\ "Pre-fire date range must be before post-fire date range." \in messages
    /\ sat_queries = 0

\* satCollection has been called in this run
QueryIssued ==
    \/ pc \in {"query_post", "layers", "report", "class_areas", "climate",
               "done"}
    \/ sat_queries > 0
    \/ pre_fire_collection # NoCollection
    \/ post_fire_collection # NoCollection

LongWindowWarning ==
    "Date ranges longer than 30 days may slow down processing."

\* C21: when satCollection is called in a run, the four dates are in the
\* order pre start <= pre end < post start <= post end; a window of more
\* than 30 days gives the warning and the run goes on to the queries (it is
\* stopped later only if a collection is missing).
C21_OrderedAtQuery ==
    /\ (pc = "query_pre" \/ QueryIssued) =>
          /\ DatesChosen
          /\ pre_fire_dates[1] <= pre_fire_dates[2]
          /\ pre_fire_dates[2] < post_fire_dates[1]
          /\ post_fire_dates[1] <= post_fire_dates[2]
    /\ (DatesChosen
          /\ pre_fire_dates[1] <= pre_fire_dates[2]
          /\ pre_fire_dates[2] < post_fire_dates[1]
          /\ post_fire_dates[1] <= post_fire_dates[2]
          /\ (pre_fire_dates[2] - pre_fire_dates[1] > WarnDays
                \/ post_fire_dates[2] - post_fire_dates[1] > WarnDays)) =>
          /\ LongWindowWarning \in messages
          /\ pc # "crashed"
          /\ pc = "stopped" =>
                "Cannot generate map due to missing satellite data."
                    \in messages

\* both queries made for a post-fire window of 31 days, with the warning
C21_Witness ==
    /\ pc = "layers"
    /\ sat_queries = 2
    /\ pre_fire_dates = <<1, 1>>
    /\ post_fire_dates = <<2, MaxDay + WarnDays + 1>>
    /\ LongWindowWarning \in messages

\* C22: with a picker that holds an incomplete range the run shows the
\* "Please select valid date ranges" error and stops; no run ends in an
\* unhandled exception, and no query is made with such a range.
C22_IncompleteStopsCleanly ==
    /\ pc # "crashed"
    /\ (Len(pre_fire_dates) = 1 \/ Len(post_fire_dates) = 1) =>
          /\ pc = "stopped"
          /\ "Please select valid date ranges for both pre-fire and post-fire periods."
                \in messages
          /\ sat_queries = 0

\* the add_ee_layer calls of the run have been made
LayersAdded == pc \in {"report", "class_areas", "climate", "done"}

FiveLayers ==
    <<"Pre-Fire Satellite Imagery", "Post-Fire Satellite Imagery", "NDWI",
      "Reclassified dNBR", "Burn Scar">>

\* C23: a run that has passed the date validation and has both collections
\* takes the branch of the five layers (all five are on the map unless an
\* add_ee_layer call failed); the 'Satellite Imagery' layer is never added.
C23_FiveLayerBranch ==
    /\ \A i \in 1..Len(layers) : layers[i] # "Satellite Imagery"
    /\ LayersAdded =>
          /\ pre_fire_dates[1] # post_fire_dates[1]
          /\ "Error adding layer to map" \notin messages =>
                layers = FiveLayers

\* a run with the five layers on the map
C23_Witness ==
    /\ pc = "report"
    /\ pre_fire_collection.kind = "coll"
    /\ post_fire_collection.kind = "coll"
    /\ layers = FiveLayers
    /\ Len(layers) = 5

Current(coll, dates) ==
    coll.kind = "coll" =>
        /\ coll.aoi = geometry_aoi
        /\ coll.start = dates[1]
        /\ coll.end = dates[2]
        /\ coll.cloud = cloud_pixel_percentage

\* C7: a collection satCollection returns is filtered by and clipped to the
\* region, the date window and the cloud threshold of the current run.
C7_CurrentRegion ==
    /\ Current(pre_fire_collection, pre_fire_dates)
    /\ Current(post_fire_collection, post_fire_dates)

ReportShown == pc \in {"climate", "done"} /\ Len(dNBR_class_areas) = 7

\* C8: the total area and the seven class areas of a report are computed from
\* the boundary and the water-masked classified raster of the current run.
C8_CurrentAreas ==
    ReportShown =>
        /\ geometry_area.aoi = geometry_aoi
        /\ \A i \in 1..7 :
              /\ dNBR_class_areas[i].aoi = geometry_aoi
              /\ dNBR_class_areas[i].image =
                     <<pre_fire_collection, post_fire_collection>>

ClassAreaTotal ==
    SumOver(1..7, [i \in 1..7 |-> dNBR_class_areas[i].value])

\* C9: in a report the seven class areas add up to no more than the total
\* boundary area (class areas in m2, the total in units of 0.0001 km2).
C9_SumWithinTotal ==
    ReportShown => ClassAreaTotal <= geometry_area.value * 100

---------------------------------------------------------------------------
(* SpecMonth and SpecSeries: the two climate sections on one date window *)

\* the last year of the windows (2024 is a leap year)
LastYear == 2024

\* months between the month of the window's first and of its last day
MaxMonthSpan == 1

\* images per day in a remote dataset
MaxImages == 2

\* the last day of the month the windows of SpecSeries lie in
MaxSeriesDay == 2

Years == 2023..LastYear

Dates ==
    {dt \in [year : Years, month : 1..12, day : 1..31] :
        dt.day <= MonthRange(dt.year, dt.month)}

MonthIndex(date) == date.year * 12 + date.month

\* the windows start <= end of SpecMonth
Windows ==
    {w \in Dates \X Dates :
        /\ ~DateLt(w[2], w[1])
        /\ MonthIndex(w[2]) - MonthIndex(w[1]) <= MaxMonthSpan}

\* the windows of SpecSeries: in February 2023
SeriesWindows ==
    {w \in [year : {2023}, month : {2}, day : 1..MaxSeriesDay]
            \X [year : {2023}, month : {2}, day : 1..MaxSeriesDay] :
        ~DateLt(w[2], w[1])}

RainValues == {None, 0, 12344}

KelvinValues == {None, 300000, 300004, 263146}

Datasets(values) ==
    {[imgs |-> q, order |-> o] :
        q \in SeqsUpTo(values, MaxImages), o \in {"asc", "desc"}}

ClimateStart ==
    /\ cpc = "window"
    /\ rain_range = NoRange
    /\ temp_range = NoRange
    /\ rdf = <<>>
    /\ temp_df = <<>>
    /\ AppIdle
    /\ PixelOff
    /\ BandsOff

\* any window; the two datasets hold no image
InitMonth ==
    /\ \E w \in Windows :
         /\ initialDate = Strftime(w[1])
         /\ endDate = Strftime(w[2])
    /\ chirps = NoDataset
    /\ era5 = NoDataset
    /\ ClimateStart

\* a few windows; any two datasets
InitSeries ==
    /\ \E w \in SeriesWindows :
         /\ initialDate = Strftime(w[1])
         /\ endDate = Strftime(w[2])
    /\ chirps \in Datasets(RainValues)
    /\ era5 \in Datasets(KelvinValues)
    /\ ClimateStart

\* rdf = full_month_precipitation(initialDate, endDate, geometry_aoi)
FullMonthPrecipitation ==
    /\ cpc = "window"
    /\ LET range == FullMonthRange(initialDate, endDate)
           raincol == ClimateCollection(chirps, range.start, range.end)
       IN  /\ rain_range' = range
           /\ rdf' = IF raincol.none THEN <<>>
                     ELSE PrecipitationFrame(raincol.images)
    /\ cpc' = "rain"
    /\ UNCHANGED <<initialDate, endDate, chirps, era5, temp_range, temp_df,
                   bandvars, pixvars, runvars>>

\* temp_df = full_month_temperature(initialDate, endDate, geometry_aoi);
\* a Temperature column of None only is an object column, whose mean is,
\* with the pandas version, missing for every date or a TypeError (the
\* except branch returns the empty frame)
FullMonthTemperature ==
    /\ cpc = "rain"
    /\ LET range == FullMonthRange(initialDate, endDate)
           tempcol == ClimateCollection(era5, range.start, range.end)
           scaled == ScaledValues(tempcol.images)
           all_missing == \A j \in 1..Len(scaled) :
                              scaled[j].Temperature = None
       IN  /\ temp_range' = range
           /\ IF tempcol.none THEN temp_df' = <<>>
              ELSE IF all_missing
              THEN temp_df' \in {<<>>, GroupByDateMean(scaled)}
              ELSE temp_df' = GroupByDateMean(scaled)
    /\ cpc' = "temp"
    /\ UNCHANGED <<initialDate, endDate, chirps, era5, rain_range, rdf,
                   bandvars, pixvars, runvars>>

NextClimate ==
    \/ FullMonthPrecipitation
    \/ FullMonthTemperature

SpecMonth == InitMonth /\ [][NextClimate]_vars

SpecSeries == InitSeries /\ [][NextClimate]_vars

\* the days of the calendar months from a's month to b's month
MonthDays(a, b) ==
    {dt \in [year : a.year..b.year, month : 1..12, day : 1..31] :
        /\ dt.day <= MonthRange(dt.year, dt.month)
        /\ MonthIndex(a) <= MonthIndex(dt)
        /\ MonthIndex(dt) <= MonthIndex(b)}

\* the images of a day are within the dates of a filterDate call
Covered(range, day) ==
    /\ range # NoRange
    /\ ~DateLt(day, Strptime(range.start))
    /\ DateLt(day, Strptime(range.end))

\* C16: for a window start <= end, the precipitation and the temperature
\* query cover every day of the calendar months from start's to end's month.
C16_FullMonths ==
    LET days == MonthDays(Strptime(initialDate), Strptime(endDate))
    IN  /\ cpc \in {"rain", "temp"} =>
              \A day \in days : Covered(rain_range, day)
        /\ cpc = "temp" => \A day \in days : Covered(temp_range, day)

\* the days of the expanded window, ascending
ExpandedDays ==
    LET a == Strptime(initialDate)
        b == Strptime(endDate)
    IN  DaysFrom([a EXCEPT !.day = 1],
                 NextDay([b EXCEPT !.day = MonthRange(b.year, b.month)]))

OnePointPerDay(frame) ==
    /\ Len(frame) = Len(ExpandedDays)
    /\ \A j \in 1..Len(frame) : frame[j].Date = Strftime(ExpandedDays[j])

\* C17: when the datasets hold images for every day, in whatever number and
\* order, each series has exactly one point per day of the expanded window,
\* in ascending order of the date.
C17_OnePointPerDay ==
    (cpc = "temp" /\ chirps.imgs # <<>> /\ era5.imgs # <<>>) =>
        /\ OnePointPerDay(rdf)
        /\ OnePointPerDay(temp_df)

\* the images of a day that have a value, and the sum of their values
NonMissing == {i \in 1..Len(era5.imgs) : era5.imgs[i] # None}

KelvinSum == SumOver(NonMissing, [i \in NonMissing |-> era5.imgs[i]])

\* C18 as stated: a non-missing temperature is a remote value in Kelvin
\* minus 273.15, and a missing remote value stays missing.
C18_KelvinMinus ==
    cpc = "temp" =>
        \A j \in 1..Len(temp_df) :
            LET t == temp_df[j].Temperature
            IN  /\ t.n = 0 <=> NonMissing = {}
                /\ t.n > 0 =>
                      \E i \in NonMissing :
                          t.sum * 10 = t.n * (era5.imgs[i] - 273150)

\* C18, amended: a temperature is the mean over the day's non-missing remote
\* values of the value minus 273.15 rounded to two decimals: within 0.005 of
\* the mean Kelvin value minus 273.15, equal to it when the remote values
\* have two decimals (300.0 K gives 26.85); missing values do not enter the
\* mean, and a day with none but missing values has a missing temperature.
C18_RoundedDailyMean ==
    cpc = "temp" =>
        \A j \in 1..Len(temp_df) :
            LET t == temp_df[j].Temperature
                exact == KelvinSum - t.n * 273150
            IN  /\ t.n = Cardinality(NonMissing)
                /\ t.n = 0 => t.sum = 0
                /\ t.sum * 10 - exact <= 5 * t.n
                /\ exact - t.sum * 10 <= 5 * t.n
                /\ (\A i \in NonMissing : era5.imgs[i] % 10 = 0) =>
                       t.sum * 10 = exact
                /\ era5.imgs = <<300000>> => t = [sum |-> 2685, n |-> 1]

\* a day with a missing value and a value of three decimals, grouped
C18_Witness ==
    /\ cpc = "temp"
    /\ era5.imgs = <<None, 300004>>
    /\ era5.order = "desc"
    /\ Len(temp_df) > 0
    /\ temp_df[1].Temperature = [sum |-> 2685, n |-> 1]

---------------------------------------------------------------------------
(* SpecIndex: the indices of one pixel from the bands of the composites *)

\* the largest reflectance of a band
RMax == 2

\* a band value: negative (no valid reflectance), 0, or positive
Reflectances == -1..RMax

Bands == [B3 : Reflectances, B8 : Reflectances, B11 : Reflectances,
          B12 : Reflectances]

InitIndex ==
    /\ ppc = "bands"
    /\ pre_fire \in Bands
    /\ post_fire \in Bands
    /\ dNBR = NoPixel
    /\ pre_fire_ndwi = NoPixel
    /\ post_fire_ndwi = NoPixel
    /\ pre_fire_NBR = NoPixel
    /\ post_fire_NBR = NoPixel
    /\ dNBR_classified = NoPixel
    /\ masked_dNBR_classified = NoPixel
    /\ dNBR_classified_burn = NoPixel
    /\ class_pixel_area = [c \in Classes |-> 0]
    /\ AppIdle
    /\ ClimateOff

\* the NDWI and NBR of both composites, and dNBR
IndexPixel ==
    /\ ppc = "bands"
    /\ pre_fire_ndwi' = get_NDWI(pre_fire)
    /\ post_fire_ndwi' = get_NDWI(post_fire)
    /\ pre_fire_NBR' = get_NBR(pre_fire)
    /\ post_fire_NBR' = get_NBR(post_fire)
    /\ dNBR' = Subtract(get_NBR(pre_fire), get_NBR(post_fire))
    /\ ppc' = "index"
    /\ UNCHANGED <<pre_fire, post_fire, dNBR_classified,
                   masked_dNBR_classified, dNBR_classified_burn,
                   class_pixel_area, runvars, climvars>>

NextIndex == IndexPixel

SpecIndex == InitIndex /\ [][NextIndex]_vars

\* non-negative and not both zero
ValidPair(a, b) == a >= 0 /\ b >= 0 /\ a + b > 0

InUnit(img) == img.mask = 1 /\ img.value >= -10000 /\ img.value <= 10000

\* C19: for valid reflectances the NBR and the NDWI of a pixel are in
\* [-1, 1], and dNBR, of two valid NBR values, is in [-2, 2].
C19_IndexRange ==
    ppc = "index" =>
        /\ ValidPair(pre_fire.B8, pre_fire.B12) => InUnit(pre_fire_NBR)
        /\ ValidPair(post_fire.B8, post_fire.B12) => InUnit(post_fire_NBR)
        /\ ValidPair(pre_fire.B3, pre_fire.B11) => InUnit(pre_fire_ndwi)
        /\ ValidPair(post_fire.B3, post_fire.B11) => InUnit(post_fire_ndwi)
        /\ (ValidPair(pre_fire.B8, pre_fire.B12)
              /\ ValidPair(post_fire.B8, post_fire.B12)) =>
                 /\ dNBR.mask = 1
                 /\ dNBR.value >= -20000
                 /\ dNBR.value <= 20000

\* the two ends are reached: NBR 1 before and -1 after the fire, dNBR 2
C19_Witness ==
    /\ ppc = "index"
    /\ ValidPair(pre_fire.B8, pre_fire.B12)
    /\ ValidPair(post_fire.B8, post_fire.B12)
    /\ pre_fire_NBR.value = 10000
    /\ post_fire_NBR.value = -10000
    /\ dNBR.value = 20000
    /\ pre_fire_ndwi.mask = 1

=============================================================================
